---- MODULE Spec2Model ----
(***************************************************************************)
(* Veo Video Weaver: the App component's state (src/App.tsx) and the       *)
(* generateVideo service (src/unnamed/part_000), as a state machine.       *)
(* Every await of the code is a suspension point: the part of a handler    *)
(* that runs between two awaits is one action.  React state written by a   *)
(* handler is rendered before the next user event is dispatched.           *)
(***************************************************************************)
EXTENDS Integers, Sequences, FiniteSets, TLC

\* ---------------------------------------------------------------- bounds
\* The code bounds none of these; the bounds limit which steps Next takes.
\* getVideosOperation calls one generateVideo call is followed through; the
\* code goes on polling for as long as the answer is "not done".
MaxPolls == 10
\* The same where handleGenerateVideo is called directly.
MaxPollsDirect == 1
\* generateVideo calls followed while in flight together.
MaxJobs == 2
\* openSelectKey() calls followed while pending together.
MaxSelectPending == 2
\* The same where handleGenerateVideo is called directly.
MaxSelectPendingDirect == 1

\* ------------------------------------------------------------ JS values
Null == [type |-> "null"]
Undefined == [type |-> "undefined"]
\* A string is a sequence of text fragments; "" is the empty sequence.
Str(s) == [type |-> "string", val |-> s]
FileObj(name) == [type |-> "file", name |-> name]

\* JavaScript truthiness of the values above (!x, x ? a : b, x || y).
Truthy(v) ==
    CASE v.type = "string" -> v.val # <<>>
      [] v.type = "file" -> TRUE
      [] OTHER -> FALSE

\* String.prototype.includes, at the granularity of fragments.
Includes(s, fragment) == \E i \in 1..Len(s) : s[i] = fragment

\* URL.createObjectURL: a non-empty blob: URL naming what it was made from.
CreateObjectURL(what) == Str(<<"blob:", what>>)

\* ------------------------------------------------------------ constants
LOADING_MESSAGES ==
    << "Warming up the video engine...",
       "Contacting creative AI director...",
       "Storyboarding your prompt...",
       "Setting up the virtual cameras...",
       "Rendering initial frames (this can take a few minutes)...",
       "Applying cinematic lighting and effects...",
       "Your vision is materializing, please wait...",
       "Enhancing color and texture...",
       "Adding the final touches to your masterpiece...",
       "Almost there, compiling the final video file..." >>

\* LOADING_MESSAGES[i] for a JavaScript (0-based) index i.
LoadingMessageAt(i) == LOADING_MESSAGES[i + 1]

DOWNLOADING_MESSAGE == "Downloading your generated video..."

ENTITY_NOT_FOUND == "Requested entity was not found"

MSG_NO_IMAGE == Str(<<"Please upload an image first.">>)
MSG_NO_KEY == Str(<<"Please select an API key before generating a video.">>)
MSG_DIALOG == Str(<<"Failed to open the API key selection dialog.">>)
MSG_INVALID_KEY ==
    Str(<<"Your API key is invalid or has been revoked. Please select a new key.">>)
MSG_UNKNOWN == Str(<<"An unknown error occurred.">>)
MSG_NO_LINK ==
    Str(<<"Video generation completed, but no download link was found.">>)
MSG_NOT_BASE64 == Str(<<"Failed to read file as base64 string.">>)

\* ------------------------------------------------- inputs and environment
Files == {"photo.jpg"}
Prompts == {Str(<<>>), Str(<<"a cat running">>)}
AspectRatios == {"16:9", "9:16"}
Keys == {"k1", "k2"}

\* The message property of a value thrown by a remote call.
ThrownMessages ==
    { Str(<<"ApiError: ", ENTITY_NOT_FOUND, ".">>),
      Str(<<"Network error">>),
      Str(<<>>),
      Undefined }

\* operation.response?.generatedVideos?.[0]?.video?.uri of a finished operation.
DownloadLinks == {Undefined, Str(<<>>), Str(<<"https://video.example/v1?alt=media">>)}

NoOperation == [done |-> FALSE, uri |-> Undefined]

\* What an awaited generateVideos / getVideosOperation call settles to.
OperationOutcomes ==
    [kind : {"ok"}, done : {FALSE}, uri : {Undefined}, message : {Undefined}]
    \cup [kind : {"ok"}, done : {TRUE}, uri : DownloadLinks, message : {Undefined}]
    \cup [kind : {"throw"}, done : {FALSE}, uri : {Undefined}, message : ThrownMessages]

\* What FileReader.readAsDataURL ends with: a data URL, a non-string result,
\* or the error event (a ProgressEvent, which has no message).
EncodeOutcomes == {"dataurl", "nonstring", "error"}

\* What the awaited fetch settles to: a response (ok or not) or a rejection.
FetchOutcomes ==
    [kind : {"response"}, ok : BOOLEAN, statusText : {"Forbidden"}, message : {Undefined}]
    \cup [kind : {"throw"}, ok : {FALSE}, statusText : {""}, message : {Str(<<"Failed to fetch">>)}]

\* What the awaited videoResponse.blob() settles to.
BlobOutcomes ==
    [kind : {"blob"}, message : {Undefined}]
    \cup [kind : {"throw"}, message : ThrownMessages]

\* ---------------------------------------------------------------- state
VARIABLES
    apiKeySelected,     \* useState(false)
    prompt,             \* useState('')
    imageFile,          \* useState<File | null>(null)
    previewUrl,         \* useState<string | null>(null)
    aspectRatio,        \* useState<AspectRatio>('16:9')
    isLoading,          \* useState(false)
    loadingMessage,     \* useState('')
    generatedVideoUrl,  \* useState<string | null>(null)
    error,              \* useState<string | null>(null)
    probe,              \* the mount effect's checkApiKey(): "pending" or "done"
    selectPending,      \* handleSelectApiKey calls awaiting openSelectKey()
    envKey,             \* process.env.API_KEY
    aistudio,           \* window.aistudio is defined
    job                 \* the generateVideo calls, by slot

appVars == <<apiKeySelected, prompt, imageFile, previewUrl, aspectRatio,
             isLoading, loadingMessage, generatedVideoUrl, error>>
vars == <<apiKeySelected, prompt, imageFile, previewUrl, aspectRatio,
          isLoading, loadingMessage, generatedVideoUrl, error,
          probe, selectPending, envKey, aistudio, job>>

\* The slots of the generateVideo calls made so far.
Jobs == DOMAIN job

\* A slot before any generateVideo call runs in it.
NoJob ==
    [pc |-> "none", file |-> Null, aiKey |-> "", imageBase64 |-> "", operation |-> NoOperation, pollCount |-> 0,
     progress |-> <<>>, calls |-> <<>>, keys |-> {}, result |-> "none"]

Init ==
    /\ apiKeySelected = FALSE
    /\ prompt = Str(<<>>)
    /\ imageFile = Null
    /\ previewUrl = Null
    /\ aspectRatio = "16:9"
    /\ isLoading = FALSE
    /\ loadingMessage = ""
    /\ generatedVideoUrl = Null
    /\ error = Null
    /\ probe = "pending"
    /\ selectPending = 0
    /\ envKey = "k1"
    /\ aistudio \in BOOLEAN
    /\ job = <<>>

\* ------------------------------------------------------- credential gate
\* How the probe ends: hasSelectedApiKey() resolves true or false or rejects,
\* or window.aistudio is absent and nothing is asked.
ProbeOutcomes == {"true", "false", "throws", "absent"}

\* Mutant: only an explicit false clears the gate.
CheckApiKeyResultUnlessFalse(outcome) == outcome # "false"

\* The value checkApiKey gives setApiKeySelected.
CheckApiKeyResult(outcome) == outcome = "true"

\* checkApiKey, started by the mount effect, settles.
CheckApiKeyDone(outcome) ==
    /\ probe = "pending"
    /\ outcome = "absent" <=> ~aistudio
    /\ probe' = "done"
    /\ apiKeySelected' = CheckApiKeyResult(outcome)
    /\ UNCHANGED <<prompt, imageFile, previewUrl, aspectRatio, isLoading,
                   loadingMessage, generatedVideoUrl, error, selectPending,
                   envKey, aistudio, job>>

\* The ApiKeySelector overlay is rendered.
ApiKeySelectorShown == ~apiKeySelected

\* handleSelectApiKey up to its await of openSelectKey(). Where window.aistudio
\* is undefined the call throws before anything is awaited, and the catch block
\* runs within the click.
ClickSelectApiKey ==
    /\ ApiKeySelectorShown
    /\ IF aistudio
       THEN /\ selectPending' = selectPending + 1
            /\ error' = error
       ELSE /\ selectPending' = selectPending
            /\ error' = MSG_DIALOG
    /\ UNCHANGED <<apiKeySelected, prompt, imageFile, previewUrl, aspectRatio,
                   isLoading, loadingMessage, generatedVideoUrl, probe, envKey,
                   aistudio, job>>

\* Mutant: the gate is set whether or not the dialog opened.
SelectedAfterOpenAlways(outcome) == TRUE

\* apiKeySelected after handleSelectApiKey: setApiKeySelected(true) follows the
\* await inside the try block, the catch block leaves the gate alone.
SelectedAfterOpen(outcome) ==
    IF outcome = "resolved" THEN TRUE ELSE apiKeySelected

\* handleSelectApiKey after the await: openSelectKey() resolved (the host may
\* have installed another key) or rejected.
OpenSelectKeyDone(outcome, key) ==
    /\ selectPending > 0
    /\ selectPending' = selectPending - 1
    /\ apiKeySelected' = SelectedAfterOpen(outcome)
    /\ IF outcome = "resolved"
       THEN /\ envKey' = key
            /\ error' = error
       ELSE /\ error' = MSG_DIALOG
            /\ key = envKey
            /\ envKey' = envKey
    /\ UNCHANGED <<prompt, imageFile, previewUrl, aspectRatio, isLoading,
                   loadingMessage, generatedVideoUrl, probe, aistudio, job>>

\* ------------------------------------------------------------ form input
\* The ImageUpload component is rendered.
ImageUploadShown == ~Truthy(generatedVideoUrl) /\ ~isLoading

handleImageSelect(f) ==
    /\ ImageUploadShown
    /\ imageFile' = FileObj(f)
    /\ previewUrl' = CreateObjectURL(f)
    /\ UNCHANGED <<apiKeySelected, prompt, aspectRatio, isLoading, loadingMessage,
                   generatedVideoUrl, error, probe, selectPending, envKey, aistudio, job>>

\* The prompt textarea and the aspect-ratio buttons are disabled={isLoading}.
FormDisabled == isLoading

SetPrompt(p) ==
    /\ ~FormDisabled
    /\ prompt' = p
    /\ UNCHANGED <<apiKeySelected, imageFile, previewUrl, aspectRatio, isLoading,
                   loadingMessage, generatedVideoUrl, error, probe, selectPending,
                   envKey, aistudio, job>>

SetAspectRatio(r) ==
    /\ ~FormDisabled
    /\ aspectRatio' = r
    /\ UNCHANGED <<apiKeySelected, prompt, imageFile, previewUrl, isLoading,
                   loadingMessage, generatedVideoUrl, error, probe, selectPending,
                   envKey, aistudio, job>>

\* The "Create Another Video" button is rendered instead of "Generate Video".
CreateAnotherShown == Truthy(generatedVideoUrl)

\* Mutant: the reset also starts checkApiKey again.
CreateAnotherVideoProbes ==
    /\ generatedVideoUrl' = Null
    /\ imageFile' = Null
    /\ previewUrl' = Null
    /\ prompt' = Str(<<>>)
    /\ error' = Null
    /\ probe' = "pending"
    /\ UNCHANGED <<apiKeySelected, aspectRatio, isLoading, loadingMessage,
                   selectPending, envKey, aistudio, job>>

\* onClick of "Create Another Video".
CreateAnotherVideo ==
    /\ generatedVideoUrl' = Null
    /\ imageFile' = Null
    /\ previewUrl' = Null
    /\ prompt' = Str(<<>>)
    /\ error' = Null
    /\ UNCHANGED <<apiKeySelected, aspectRatio, isLoading, loadingMessage, probe,
                   selectPending, envKey, aistudio, job>>

ClickCreateAnother ==
    /\ CreateAnotherShown
    /\ CreateAnotherVideo

\* ------------------------------------------- handleGenerateVideo: the end
\* e.message || 'An unknown error occurred.'
ErrorMessageOf(message) == IF Truthy(message) THEN message ELSE MSG_UNKNOWN

\* Mutant: the message is compared whole instead of searched.
IsInvalidKeyErrorExact(errorMessage) ==
    errorMessage.type = "string" /\ errorMessage.val = <<ENTITY_NOT_FOUND>>

\* typeof errorMessage === 'string' && errorMessage.includes('Requested entity
\* was not found')
IsInvalidKeyError(errorMessage) ==
    errorMessage.type = "string" /\ Includes(errorMessage.val, ENTITY_NOT_FOUND)

\* Mutant: a failed poll is tried again after the next timer.
RejectedRetriesPoll(j, rec, message) ==
    IF rec.pc = "poll"
    THEN /\ job' = [job EXCEPT ![j] = [rec EXCEPT !.pc = "wait"]]
         /\ UNCHANGED <<appVars, probe, selectPending, envKey, aistudio>>
    ELSE LET errorMessage == ErrorMessageOf(message) IN
         /\ IF IsInvalidKeyError(errorMessage)
            THEN /\ error' = MSG_INVALID_KEY
                 /\ apiKeySelected' = FALSE
            ELSE /\ error' = errorMessage
                 /\ apiKeySelected' = apiKeySelected
         /\ isLoading' = FALSE
         /\ loadingMessage' = ""
         /\ job' = [job EXCEPT ![j] = [rec EXCEPT !.pc = "done", !.result = "rejected"]]
         /\ UNCHANGED <<prompt, imageFile, previewUrl, aspectRatio, generatedVideoUrl,
                        probe, selectPending, envKey, aistudio>>

\* The catch and finally blocks of handleGenerateVideo, for call j
\* rejecting with a value whose message property is message.
Rejected(j, rec, message) ==
    LET errorMessage == ErrorMessageOf(message) IN
    /\ IF IsInvalidKeyError(errorMessage)
       THEN /\ error' = MSG_INVALID_KEY
            /\ apiKeySelected' = FALSE
       ELSE /\ error' = errorMessage
            /\ apiKeySelected' = apiKeySelected
    /\ isLoading' = FALSE
    /\ loadingMessage' = ""
    /\ job' = [job EXCEPT ![j] = [rec EXCEPT !.pc = "done", !.result = "rejected"]]
    /\ UNCHANGED <<prompt, imageFile, previewUrl, aspectRatio, generatedVideoUrl,
                   probe, selectPending, envKey, aistudio>>

\* setGeneratedVideoUrl(videoUrl) and the finally block, for call j resolving.
Resolved(j, rec, videoUrl) ==
    /\ generatedVideoUrl' = videoUrl
    /\ isLoading' = FALSE
    /\ loadingMessage' = ""
    /\ job' = [job EXCEPT ![j] = [rec EXCEPT !.pc = "done", !.result = "resolved"]]
    /\ UNCHANGED <<apiKeySelected, prompt, imageFile, previewUrl, aspectRatio,
                   error, probe, selectPending, envKey, aistudio>>

\* ------------------------------------------------------- generateVideo
\* onProgress(message): setLoadingMessage, and the record of what the caller saw.
OnProgress(rec, message) == [rec EXCEPT !.progress = Append(@, message)]

\* A remote call made with the given key, recorded: the calls in order, and
\* the keys they were made with.
Call(rec, op, key) ==
    [rec EXCEPT !.calls = Append(@, op), !.keys = @ \cup {key}]

\* reader.result of readAsDataURL, as its comma-separated parts.
ReadAsDataURL(name) == <<"data:image;base64", name>>

\* Mutant: the count starts at zero.
InitialPollCountZero == 1 - 1

\* let pollCount = 1
InitialPollCount == 1

\* Mutant: the count goes down.
PollCountDecremented(pollCount) == pollCount - 1

\* pollCount++
PollCountIncremented(pollCount) == pollCount + 1

\* Mutant: the polling client reuses the key the submitting client was made with.
PollApiKeyOfSubmit(rec) == rec.aiKey

\* new GoogleGenAI({ apiKey: process.env.API_KEY }) before each poll: the key
\* in the environment when the timer has fired.
PollApiKey(rec) == envKey

\* process.env.API_KEY in the download URL: the key in the environment when
\* the URL is built.
DownloadApiKey(rec) == envKey

\* Mutant: the loop test ignores the completion flag.
LoopContinuesAlways(operation) == TRUE

\* Mutant: a finished operation without a link is polled again.
LoopContinuesUnlessLinked(operation) == ~operation.done \/ ~Truthy(operation.uri)

\* while (!operation.done)
LoopContinues(operation) == ~operation.done

\* Mutant: the modulus is one short of the list's length.
ProgressIndexShort(pollCount) == pollCount % (Len(LOADING_MESSAGES) - 1)

\* pollCount % LOADING_MESSAGES.length
ProgressIndex(pollCount) == pollCount % Len(LOADING_MESSAGES)

\* Mutant: only an absent link is refused, an empty one is fetched.
HasNoLinkOnlyUndefined(downloadLink) == downloadLink = Undefined

\* if (!downloadLink)
HasNoLink(downloadLink) == ~Truthy(downloadLink)

\* From the loop test to the next await (or the throw), with rec holding the
\* operation just received.
FromLoopTest(j, rec) ==
    IF LoopContinues(rec.operation)
    THEN LET message == LoadingMessageAt(ProgressIndex(rec.pollCount)) IN
         /\ loadingMessage' = message
         /\ job' = [job EXCEPT ![j] =
                       [OnProgress(rec, message) EXCEPT
                            !.pollCount = PollCountIncremented(@), !.pc = "wait"]]
         /\ UNCHANGED <<apiKeySelected, prompt, imageFile, previewUrl, aspectRatio,
                        isLoading, generatedVideoUrl, error, probe, selectPending,
                        envKey, aistudio>>
    ELSE LET downloadLink == rec.operation.uri IN
         IF HasNoLink(downloadLink)
         THEN Rejected(j, rec, MSG_NO_LINK)
         ELSE /\ loadingMessage' = DOWNLOADING_MESSAGE
              /\ job' = [job EXCEPT ![j] =
                            [Call(OnProgress(rec, DOWNLOADING_MESSAGE), "fetch", DownloadApiKey(rec))
                                 EXCEPT !.pc = "fetch"]]
              /\ UNCHANGED <<apiKeySelected, prompt, imageFile, previewUrl,
                             aspectRatio, isLoading, generatedVideoUrl, error, probe,
                             selectPending, envKey, aistudio>>

\* The operation an "ok" outcome carries.
OperationOf(o) == [done |-> o.done, uri |-> o.uri]

\* The getVideosOperation calls among calls.
Polls(calls) == {i \in 1..Len(calls) : calls[i] = "getVideosOperation"}

\* The fetch calls among calls.
Fetches(calls) == {i \in 1..Len(calls) : calls[i] = "fetch"}

\* Fewer than maxPolls getVideosOperation calls have been made.
WithinPolls(rec, maxPolls) == Cardinality(Polls(rec.calls)) < maxPolls

\* await fileToBase64(imageFile) settles; onProgress(LOADING_MESSAGES[0]); the
\* generateVideos call is made.
EncodeDone(j, o) ==
    /\ job[j].pc = "encode"
    /\ IF o = "dataurl"
       THEN LET message == LoadingMessageAt(0)
                encoded == [job[j] EXCEPT
                               !.imageBase64 = ReadAsDataURL(job[j].file.name)[2]] IN
            /\ loadingMessage' = message
            /\ job' = [job EXCEPT ![j] =
                          [Call(OnProgress(encoded, message), "generateVideos",
                                job[j].aiKey) EXCEPT !.pc = "submit"]]
            /\ UNCHANGED <<apiKeySelected, prompt, imageFile, previewUrl,
                           aspectRatio, isLoading, generatedVideoUrl, error, probe,
                           selectPending, envKey, aistudio>>
       ELSE Rejected(j, job[j], IF o = "nonstring" THEN MSG_NOT_BASE64 ELSE Undefined)

\* await ai.models.generateVideos(...) settles.
SubmitDone(j, o) ==
    /\ job[j].pc = "submit"
    /\ IF o.kind = "throw"
       THEN Rejected(j, job[j], o.message)
       ELSE LET rec == [job[j] EXCEPT !.operation = OperationOf(o),
                                      !.pollCount = InitialPollCount] IN
            FromLoopTest(j, rec)

\* The 10 second timer fires; getVideosOperation is called on a new client.
TimerFired(j) ==
    /\ job[j].pc = "wait"
    /\ job' = [job EXCEPT ![j] =
                  [Call(job[j], "getVideosOperation", PollApiKey(job[j])) EXCEPT !.pc = "poll"]]
    /\ UNCHANGED <<appVars, probe, selectPending, envKey, aistudio>>

\* await getOpAi.operations.getVideosOperation(...) settles.
PollDone(j, o) ==
    /\ job[j].pc = "poll"
    /\ IF o.kind = "throw"
       THEN Rejected(j, job[j], o.message)
       ELSE LET rec == [job[j] EXCEPT !.operation = OperationOf(o)] IN
            FromLoopTest(j, rec)

\* await fetch(...) settles.
FetchDone(j, o) ==
    /\ job[j].pc = "fetch"
    /\ IF o.kind = "throw"
       THEN Rejected(j, job[j], o.message)
       ELSE IF ~o.ok
       THEN Rejected(j, job[j], Str(<<"Failed to download video: ", o.statusText>>))
       ELSE /\ job' = [job EXCEPT ![j].pc = "blob"]
            /\ UNCHANGED <<appVars, probe, selectPending, envKey, aistudio>>

\* await videoResponse.blob() settles; URL.createObjectURL(videoBlob) is returned.
BlobDone(j, o) ==
    /\ job[j].pc = "blob"
    /\ IF o.kind = "blob"
       THEN Resolved(j, job[j], CreateObjectURL("video"))
       ELSE Rejected(j, job[j], o.message)

\* ------------------------------------------- handleGenerateVideo: the start
\* A slot is free when no call is running in it.
Free(j) == job[j].pc \in {"none", "done"}

\* Mutant: the first message is emitted before the file is read.
StartGenerateVideoProgressFirst ==
    OnProgress([NoJob EXCEPT !.pc = "encode", !.file = imageFile, !.aiKey = envKey],
               LoadingMessageAt(0))

\* generateVideo(prompt, imageFile, aspectRatio, setLoadingMessage) up to its
\* first await: the client is created with the current key, the file read starts.
\* (prompt and aspectRatio are only passed on in the request.)
StartGenerateVideo ==
    [NoJob EXCEPT !.pc = "encode", !.file = imageFile, !.aiKey = envKey]

\* handleGenerateVideo past its two tests, up to the await of generateVideo:
\* the call runs in the lowest free slot.
StartJob ==
    /\ job' = IF \E j \in Jobs : Free(j)
              THEN LET j == CHOOSE k \in Jobs :
                                Free(k) /\ \A l \in Jobs : Free(l) => k <= l IN
                   [job EXCEPT ![j] = StartGenerateVideo]
              ELSE Append(job, StartGenerateVideo)
    /\ isLoading' = TRUE
    /\ error' = Null
    /\ generatedVideoUrl' = Null
    /\ UNCHANGED <<apiKeySelected, prompt, imageFile, previewUrl, aspectRatio,
                   loadingMessage, probe, selectPending, envKey, aistudio>>

\* Mutant: the handler does not test apiKeySelected.
handleGenerateVideoNoKeyTest ==
    IF ~Truthy(imageFile)
    THEN /\ error' = MSG_NO_IMAGE
         /\ UNCHANGED <<apiKeySelected, prompt, imageFile, previewUrl, aspectRatio,
                        isLoading, loadingMessage, generatedVideoUrl, probe,
                        selectPending, envKey, aistudio, job>>
    ELSE StartJob

handleGenerateVideo ==
    IF ~Truthy(imageFile)
    THEN /\ error' = MSG_NO_IMAGE
         /\ UNCHANGED <<apiKeySelected, prompt, imageFile, previewUrl, aspectRatio,
                        isLoading, loadingMessage, generatedVideoUrl, probe,
                        selectPending, envKey, aistudio, job>>
    ELSE IF ~apiKeySelected
    THEN /\ error' = MSG_NO_KEY
         /\ UNCHANGED <<apiKeySelected, prompt, imageFile, previewUrl, aspectRatio,
                        isLoading, loadingMessage, generatedVideoUrl, probe,
                        selectPending, envKey, aistudio, job>>
    ELSE StartJob

\* Mutant: "Generate Video" is rendered beside "Create Another Video".
GenerateShownAlways == TRUE

\* The "Generate Video" button is rendered.
GenerateShown == ~Truthy(generatedVideoUrl)

\* Mutant: the button stays enabled while a video is being generated.
GenerateDisabledNotLoading == ~Truthy(imageFile) \/ ~apiKeySelected

\* disabled={isLoading || !imageFile || !apiKeySelected}
GenerateDisabled == isLoading \/ ~Truthy(imageFile) \/ ~apiKeySelected

\* A click on "Generate Video".
ClickGenerate ==
    /\ GenerateShown
    /\ ~GenerateDisabled
    /\ handleGenerateVideo

\* handleGenerateVideo called whatever the button's state is.
CallGenerate == handleGenerateVideo

\* --------------------------------------------------------- specifications
\* What the user does with the rendered controls, with at most maxPending
\* key dialogs open together.
UserStepWithin(maxPending) ==
    \/ selectPending < maxPending /\ ClickSelectApiKey
    \/ \E f \in Files : handleImageSelect(f)
    \/ \E p \in Prompts : SetPrompt(p)
    \/ \E r \in AspectRatios : SetAspectRatio(r)
    \/ ClickCreateAnother

UserStep == UserStepWithin(MaxSelectPending)

HostStep ==
    \/ \E o \in ProbeOutcomes : CheckApiKeyDone(o)
    \/ \E o \in {"resolved", "rejected"}, k \in Keys : OpenSelectKeyDone(o, k)

\* A step of generateVideo call j, followed through maxPolls polls.
JobStepWithin(j, maxPolls) ==
    \/ \E o \in EncodeOutcomes : EncodeDone(j, o)
    \/ \E o \in OperationOutcomes : SubmitDone(j, o)
    \/ WithinPolls(job[j], maxPolls) /\ TimerFired(j)
    \/ \E o \in OperationOutcomes : PollDone(j, o)
    \/ \E o \in FetchOutcomes : FetchDone(j, o)
    \/ \E o \in BlobOutcomes : BlobDone(j, o)

JobStep(j) == JobStepWithin(j, MaxPolls)

\* The application as its user drives it.
Next ==
    \/ UserStep
    \/ ClickGenerate
    \/ HostStep
    \/ \E j \in Jobs : JobStep(j)

Spec == Init /\ [][Next]_vars

\* The same with handleGenerateVideo called directly, at any time: also
\* while a call is in flight, which starts another beside it.
NextDirect ==
    \/ UserStepWithin(MaxSelectPendingDirect)
    \/ CallGenerate /\ Len(job') <= MaxJobs
    \/ HostStep
    \/ \E j \in Jobs : JobStepWithin(j, MaxPollsDirect)

SpecDirect == Init /\ [][NextDirect]_vars

\* What the runtime itself guarantees of a running generateVideo call: the
\* FileReader fires onload or onerror, and the 10 s timer of the loop fires,
\* here for each of the polls Next follows. Nothing is assumed of the network:
\* a request may stay unanswered for ever (no timeout or abort signal is
\* passed). A job answered "not done" at the last poll followed stays at the
\* wait of the loop, where the code goes on polling.
LiveSpec ==
    /\ Spec
    /\ WF_vars(\E j \in Jobs : \E o \in EncodeOutcomes : EncodeDone(j, o))
    /\ WF_vars(\E j \in Jobs : WithinPolls(job[j], MaxPolls) /\ TimerFired(j))

\* ------------------------------------------------------ derived notions
\* A generateVideo call is running in slot j.
InFlight(j) == job[j].pc \notin {"none", "done"}


\* The video is shown: the Ready state.
Ready == ~isLoading /\ Truthy(generatedVideoUrl)

\* An error message is shown and nothing else: the Failed state.
Failed == ~isLoading /\ ~Truthy(generatedVideoUrl) /\ Truthy(error)

\* Some generateVideo call is at one of the places pcs.
Running(pcs) == \E j \in Jobs : job[j].pc \in pcs

\* The workflow state the application is in, read off what it renders: a
\* running job's phase while isLoading; else Ready when the video is shown;
\* else AwaitingCredential when the key selector is shown; else Failed when
\* an error message is shown; else Idle.
WorkflowState ==
    IF isLoading
    THEN IF Running({"fetch", "blob"}) THEN "Downloading"
         ELSE IF Running({"wait", "poll"}) THEN "Polling"
         ELSE "Submitting"
    ELSE IF Truthy(generatedVideoUrl) THEN "Ready"
    ELSE IF ~apiKeySelected THEN "AwaitingCredential"
    ELSE IF Truthy(error) THEN "Failed"
    ELSE "Idle"

\* ----------------------------------------------------------------- C1
\* A generateVideo call is awaiting a network answer: the submit, a poll, the
\* download or the reading of its body.
AwaitsNetwork == \E j \in Jobs : job[j].pc \in {"submit", "poll", "fetch", "blob"}

\* A generateVideo call is in the loop, waiting for its timer.
AwaitsTimer == \E j \in Jobs : job[j].pc = "wait"

\* C1 as claimed: every job, once started, leads to isLoading = FALSE with
\* the video reference or an error message set.
C1_Original == [](isLoading => <>(~isLoading /\ (Ready \/ Failed)))

\* C1 (amended): a job, once started, leads to isLoading = FALSE with the
\* video reference set (Ready) or an error message set (Failed), unless one of
\* its network requests is never answered, or it comes back to the wait of the
\* polling loop again and again (the operation is "not done" at every poll,
\* which a job left at that wait after the last poll followed stands for);
\* and no job is ever waiting or polling with an operation it has seen done.
C1_Terminates ==
    /\ [](isLoading => \/ <>(~isLoading /\ (Ready \/ Failed))
                       \/ <>[]AwaitsNetwork
                       \/ []<>AwaitsTimer)
    /\ [](\A j \in Jobs : job[j].pc \in {"wait", "poll"} => ~job[j].operation.done)

\* A job that polled and then ended with the video shown.
C1_Witness ==
    /\ Ready
    /\ job # <<>>
    /\ job[1].result = "resolved"
    /\ Polls(job[1].calls) # {}

\* ----------------------------------------------------------------- C2
\* C2: a call of handleGenerateVideo with no image selected, or with
\* apiKeySelected false, starts nothing: isLoading stays as it is (false,
\* unless an earlier call is still in flight), no generateVideo call is started and none makes a call (job is unchanged),
\* generatedVideoUrl is unchanged, and error becomes the validation message
\* of the test that failed.
C2_Rejected ==
    [][(CallGenerate /\ (imageFile = Null \/ ~apiKeySelected)) =>
         /\ isLoading' = isLoading
         /\ job' = job
         /\ generatedVideoUrl' = generatedVideoUrl
         /\ error' = (IF imageFile = Null THEN MSG_NO_IMAGE ELSE MSG_NO_KEY)]_vars

\* The handler was called with an image and no key, and with a key and no image.
C2_Witness ==
    \/ error = MSG_NO_KEY /\ imageFile # Null /\ ~apiKeySelected /\ ~isLoading
    \/ error = MSG_NO_IMAGE /\ imageFile = Null /\ apiKeySelected /\ ~isLoading

\* ----------------------------------------------------------------- C3
\* The thrown messages that carry the authorization-failure signature.
SignatureMessages ==
    {m \in ThrownMessages :
        m.type = "string" /\ \E i \in DOMAIN m.val : m.val[i] = ENTITY_NOT_FOUND}

\* C3: when generateVideos rejects with a message carrying 'Requested entity
\* was not found', apiKeySelected becomes false (the key selector is shown)
\* and the invalid-key message is set; when it rejects with any other message,
\* the state is Failed with that message (or the unknown-error message) and
\* apiKeySelected is left as it was.
C3_SubmitFailure ==
    [][\A j \in Jobs : \A o \in OperationOutcomes :
         (o.kind = "throw" /\ SubmitDone(j, o)) =>
            IF o.message \in SignatureMessages
            THEN /\ ~apiKeySelected'
                 /\ ApiKeySelectorShown'
                 /\ error' = MSG_INVALID_KEY
                 /\ ~isLoading'
            ELSE /\ apiKeySelected' = apiKeySelected
                 /\ Failed'
                 /\ error' = (IF o.message \in {Undefined, Str(<<>>)}
                              THEN MSG_UNKNOWN ELSE o.message)]_vars

\* Both kinds of submission failure have happened to jobs that made no call
\* but the submit: one closed the gate, the other left it open.
C3_Witness ==
    /\ job # <<>>
    /\ job[1].result = "rejected"
    /\ job[1].calls = <<"generateVideos">>
    /\ \/ error = MSG_INVALID_KEY /\ ~apiKeySelected
       \/ error = Str(<<"Network error">>) /\ apiKeySelected

\* ----------------------------------------------------------------- C4
\* C4: the k-th message a job emits that is not the download message is
\* LOADING_MESSAGES[(k - 1) mod 10]; message k = n + 1 belongs to poll cycle
\* n, and is emitted before the n-th getVideosOperation call; the index-0
\* message is out before the submit, so before the first poll.
C4_Rotation ==
    \A j \in Jobs :
        LET p == job[j].progress
            polls == Cardinality(Polls(job[j].calls)) IN
        /\ \A k \in 1..Len(p) :
               \/ p[k] = LOADING_MESSAGES[((k - 1) % 10) + 1]
               \/ k = Len(p) /\ p[k] = DOWNLOADING_MESSAGE /\ Fetches(job[j].calls) # {}
        /\ job[j].calls # <<>> => Len(p) >= 1 /\ p[1] = LOADING_MESSAGES[1]
        /\ job[j].pc = "wait" => Len(p) = polls + 2 /\ job[j].pollCount = polls + 2
        /\ job[j].pc = "poll" => Len(p) = polls + 1 /\ job[j].pollCount = polls + 1

\* A job in its tenth poll cycle, whose message is entry 0 again.
C4_Witness ==
    /\ job # <<>>
    /\ job[1].pc = "poll"
    /\ Cardinality(Polls(job[1].calls)) = 10
    /\ job[1].progress[11] = LOADING_MESSAGES[1]
    /\ loadingMessage = LOADING_MESSAGES[1]

\* ----------------------------------------------------------------- C5
\* The calls of a job whose submit and first two polls answered "not done"
\* and whose third poll answered done with a link.
HappyPathCalls ==
    <<"generateVideos", "getVideosOperation", "getVideosOperation",
      "getVideosOperation", "fetch">>

\* Job j ends this step by resolving, after the calls of the happy path.
HappyPathEnds(j) ==
    /\ job[j].pc = "blob"
    /\ job'[j].pc = "done"
    /\ job'[j].result = "resolved"
    /\ job'[j].calls = HappyPathCalls

\* C5 as claimed: the happy path ends Ready having shown exactly list[0],
\* list[1], list[2].
C5_Original ==
    [][\A j \in Jobs : HappyPathEnds(j) =>
          /\ Ready'
          /\ job'[j].progress =
                <<LOADING_MESSAGES[1], LOADING_MESSAGES[2], LOADING_MESSAGES[3]>>]_vars

\* C5 (amended): the happy path ends Ready, with the blob URL as the video
\* reference, having shown list[0] (before the submit), then list[1], list[2],
\* list[3] (one before each of the three waits), then the download message.
C5_HappyPath ==
    [][\A j \in Jobs : HappyPathEnds(j) =>
          /\ Ready'
          /\ generatedVideoUrl' = Str(<<"blob:", "video">>)
          /\ job'[j].progress =
                <<LOADING_MESSAGES[1], LOADING_MESSAGES[2], LOADING_MESSAGES[3],
                  LOADING_MESSAGES[4], DOWNLOADING_MESSAGE>>]_vars

\* The happy path has just ended.
C5_Witness ==
    /\ Ready
    /\ job # <<>>
    /\ job[1].result = "resolved"
    /\ job[1].calls = HappyPathCalls

\* ----------------------------------------------------------------- C6
\* Job j has received a finished operation that has no usable link.
DoneWithoutLink(rec) ==
    rec.operation.done /\ rec.operation.uri \in {Undefined, Str(<<>>)}

\* C6: a job that receives a finished operation without a link is over in
\* that same step, rejected, with the no-link message as the error and
\* nothing loading; it has made no fetch call and never makes one.
C6_NoResult ==
    /\ [](\A j \in Jobs : DoneWithoutLink(job[j]) =>
             /\ job[j].pc = "done"
             /\ job[j].result = "rejected"
             /\ Fetches(job[j].calls) = {})
    /\ [][\A j \in Jobs :
             (InFlight(j) /\ DoneWithoutLink(job'[j])) =>
                 /\ error' = MSG_NO_LINK
                 /\ Failed']_vars

\* A job ended so, on a poll's answer that carried an empty link.
C6_Witness ==
    /\ job # <<>>
    /\ DoneWithoutLink(job[1])
    /\ error = MSG_NO_LINK
    /\ job[1].operation.uri = Str(<<>>)
    /\ Polls(job[1].calls) # {}

\* ----------------------------------------------------------------- C7
\* The form is back to its first state: nothing loading, no video, no image,
\* no preview, an empty prompt, no error.
Cleared ==
    /\ ~isLoading
    /\ generatedVideoUrl = Null
    /\ imageFile = Null
    /\ previewUrl = Null
    /\ prompt = Str(<<>>)
    /\ error = Null

\* Failed after a job: the error shown is the one a rejected generateVideo left.
JobFailed ==
    /\ Failed
    /\ error # MSG_DIALOG
    /\ \E j \in Jobs : job[j].result = "rejected"

\* C7: in Ready and in Failed alike the user can reset, and the reset lands
\* in Idle with the form cleared.
C7_Original ==
    (Ready \/ JobFailed) =>
        ENABLED (ClickCreateAnother /\ Cleared' /\ WorkflowState' = "Idle")

\* ----------------------------------------------------------------- C8
\* C8: at most one generateVideo call is in flight; isLoading is true exactly
\* while one is; and while it is, the Generate Video button cannot start
\* another.
C8_OneJob ==
    /\ Cardinality({j \in Jobs : InFlight(j)}) <= 1
    /\ isLoading <=> \E j \in Jobs : InFlight(j)
    /\ isLoading => ~ENABLED ClickGenerate

\* A job is polling while the image and the key are both still there, so
\* that isLoading alone keeps the button disabled.
C8_Witness ==
    /\ isLoading
    /\ job # <<>>
    /\ job[1].pc = "poll"
    /\ imageFile # Null
    /\ apiKeySelected

\* ----------------------------------------------------------------- C9
\* C9: a job holding an operation it has seen done is past the loop (fetching,
\* reading the body, or over) and has polled exactly as often as it was
\* answered "not done" before; from then on its getVideosOperation calls stay
\* what they are. A submit answered done is followed by no poll at all.
C9_NoPollAfterDone ==
    /\ [](\A j \in Jobs : job[j].operation.done =>
             /\ job[j].pc \in {"fetch", "blob", "done"}
             /\ Cardinality(Polls(job[j].calls)) = job[j].pollCount - 1)
    /\ [][\A j \in Jobs :
             (job[j].operation.done /\ job'[j].pc # "encode") =>
                 Polls(job'[j].calls) = Polls(job[j].calls)]_vars

\* A job whose submit was answered done, over without a single poll.
C9_Witness ==
    /\ job # <<>>
    /\ job[1].pc = "done"
    /\ job[1].operation.done
    /\ Polls(job[1].calls) = {}
    /\ job[1].result = "resolved"

\* ---------------------------------------------------------------- C10
\* How far along Idle -> Submitting -> Polling -> Downloading -> Ready/Failed
\* a state is; AwaitingCredential comes before Idle.
Rank(state) ==
    CASE state = "AwaitingCredential" -> 0
      [] state = "Idle" -> 1
      [] state = "Submitting" -> 2
      [] state = "Polling" -> 3
      [] state = "Downloading" -> 4
      [] state \in {"Ready", "Failed"} -> 5

\* The moves C10 allows: forward ones; a reset, from Ready or Failed to Idle;
\* and the loss of the credential, which leads to AwaitingCredential.
AllowedAsClaimed(from, to) ==
    \/ Rank(from) < Rank(to)
    \/ from \in {"Ready", "Failed"} /\ to = "Idle"
    \/ to = "AwaitingCredential"

\* C10 as claimed: every change of workflow state is one of those moves.
C10_Original ==
    [][WorkflowState' # WorkflowState =>
          AllowedAsClaimed(WorkflowState, WorkflowState')]_vars

\* The moves the code makes: forward ones; a reset, from Ready only; the loss
\* of the credential; and a new submission from Failed, straight to
\* Submitting.
AllowedAmended(from, to) ==
    \/ Rank(from) < Rank(to)
    \/ from = "Ready" /\ to = "Idle"
    \/ to = "AwaitingCredential"
    \/ from = "Failed" /\ to = "Submitting"

\* C10 (amended): workflow state moves forward along Idle -> Submitting ->
\* Polling -> Downloading -> Ready/Failed, and backward only by a user reset,
\* which exists in Ready alone (Failed never goes back to Idle), by the loss
\* of the credential (to AwaitingCredential), and by a new submission in
\* Failed, which goes directly to Submitting.
C10_Transitions ==
    [][WorkflowState' # WorkflowState =>
          AllowedAmended(WorkflowState, WorkflowState')]_vars

\* Failed after a job, with Generate Video ready to start the next one.
C10_Witness ==
    /\ WorkflowState = "Failed"
    /\ JobFailed
    /\ ENABLED (ClickGenerate /\ WorkflowState' = "Submitting")

\* ------------------------------------------------------------------- C11
\* The slots after a step: those there were, and the one a new call added.
JobsAfter == DOMAIN job'

\* Slot j before a step; a slot the step adds was unused.
JobBefore(j) == IF j \in Jobs THEN job[j] ELSE NoJob

\* A step in which job j makes a remote call.
RemoteCall(j) == Len(job'[j].calls) > Len(JobBefore(j).calls)

\* A step that starts a generateVideo call in slot j, a slot that was free or
\* one the step adds.
Started(j) == job'[j].pc = "encode" /\ JobBefore(j).pc # "encode"

\* An awaited step of job j settles in failure: the file read, the submit, a
\* poll, the download or the reading of its body fails, or the finished
\* operation has no link.
FailureSettles(j) ==
    \/ \E o \in EncodeOutcomes \ {"dataurl"} : EncodeDone(j, o)
    \/ \E o \in OperationOutcomes :
          /\ o.kind = "throw" \/ (o.done /\ HasNoLink(o.uri))
          /\ SubmitDone(j, o) \/ PollDone(j, o)
    \/ \E o \in FetchOutcomes : (o.kind = "throw" \/ ~o.ok) /\ FetchDone(j, o)
    \/ \E o \in BlobOutcomes : o.kind = "throw" /\ BlobDone(j, o)

\* C11: no failure is retried. Every failure of the file read, the submit, a
\* poll, the result extraction or the download ends the job in that very step,
\* rejected and without a further remote call; a failed job stays exactly as it is, with the calls
\* it had made, until its slot is taken by a new submission, and a new
\* submission is always the user's click on Generate Video; while nothing is
\* loading no job can take a step at all.
C11_NoRetry ==
    /\ [][\A j \in JobsAfter :
            /\ j \in Jobs =>
                 /\ (FailureSettles(j) \/ (InFlight(j) /\ job'[j].result = "rejected")) =>
                        /\ job'[j].result = "rejected"
                        /\ job'[j].pc = "done"
                        /\ job'[j].calls = job[j].calls
                        /\ ~isLoading'
                 /\ (job[j].pc = "done" /\ job[j].result = "rejected") =>
                        job'[j] = job[j] \/ Started(j)
            /\ Started(j) => ClickGenerate
            /\ RemoteCall(j) => j \in Jobs /\ InFlight(j)]_vars
    /\ [](~isLoading => \A j \in Jobs : ~InFlight(j) /\ ~ENABLED JobStep(j))

\* A job that failed at its second poll, with nothing loading.
C11_Witness ==
    /\ ~isLoading
    /\ \E j \in Jobs :
          /\ job[j].result = "rejected"
          /\ job[j].calls = <<"generateVideos", "getVideosOperation",
                              "getVideosOperation">>

\* ------------------------------------------------------------------- C12
\* C12 as claimed: the remote calls of one job all use one credential value.
C12_Original == \A j \in Jobs : Cardinality(job[j].keys) <= 1

\* Job j has so far used nothing but the credential now in the environment.
OneCredential(j) == job[j].aiKey = envKey /\ job[j].keys \subseteq {envKey}

\* C12 (amended): the submit uses the credential read when the job starts;
\* every poll and the download use the credential in the environment at the
\* time of that call. So the calls of a job share one value as long as the
\* credential is not changed while the job is in flight, and the calls made
\* after a change use the new value.
C12_KeyPerCall ==
    [][\A j \in JobsAfter :
          /\ Started(j) => job'[j].aiKey = envKey /\ job'[j].keys = {}
          /\ ~Started(j) => job'[j].aiKey = job[j].aiKey
          /\ RemoteCall(j) =>
                job'[j].keys = job[j].keys \cup
                    {IF job'[j].calls[Len(job'[j].calls)] = "generateVideos"
                     THEN job[j].aiKey ELSE envKey}
          /\ ~RemoteCall(j) /\ ~Started(j) => job'[j].keys = job[j].keys
          /\ (Started(j) \/ OneCredential(j)) /\ envKey' = envKey /\ ~Free(j)' =>
                OneCredential(j)']_vars

\* A job submitted with one credential that has polled with another and is
\* about to download.
C12_Witness ==
    \E j \in Jobs :
       /\ job[j].pc = "fetch"
       /\ job[j].aiKey # envKey
       /\ Polls(job[j].calls) # {}
       /\ job[j].keys = Keys

\* ------------------------------------------------------------------- C13
\* handleSelectApiKey fails to invoke the host's flow: window.aistudio is
\* undefined at the click, or openSelectKey() rejects.
SelectKeyFails ==
    \/ ~aistudio /\ ClickSelectApiKey
    \/ OpenSelectKeyDone("rejected", envKey)

\* C13 as claimed: after a failed invocation the gate is inactive and the
\* dialog error is reported.
C13_Original == [][SelectKeyFails => ~apiKeySelected' /\ error' = MSG_DIALOG]_vars

\* C13 (amended): when openSelectKey() resolves, handleSelectApiKey marks the
\* gate active and does nothing else: no probe, no remote call, no error.
\* When the invocation fails (window.aistudio is undefined at the click, or
\* openSelectKey() rejects), the dialog error is reported and the gate is left
\* as it was: inactive, unless the startup probe or another openSelectKey()
\* made it active while this one was pending. A click with the host present
\* only starts the invocation.
C13_SelectKey ==
    [][/\ \A o \in {"resolved", "rejected"}, k \in Keys :
             OpenSelectKeyDone(o, k) =>
                /\ job' = job /\ probe' = probe
                /\ IF o = "resolved"
                   THEN apiKeySelected' /\ error' = error
                   ELSE apiKeySelected' = apiKeySelected /\ error' = MSG_DIALOG
       /\ ClickSelectApiKey =>
             /\ ~apiKeySelected /\ ~apiKeySelected'
             /\ job' = job /\ probe' = probe
             /\ IF aistudio
                THEN error' = error /\ selectPending' = selectPending + 1
                ELSE error' = MSG_DIALOG /\ selectPending' = selectPending
       /\ SelectKeyFails /\ ~apiKeySelected =>
             ~apiKeySelected' /\ error' = MSG_DIALOG]_vars

\* One dialog failed and the next one opened, before the startup probe has
\* answered: the gate is active on the strength of the invocation alone, the
\* error of the failed one still stands.
C13_Witness ==
    /\ apiKeySelected
    /\ probe = "pending"
    /\ error = MSG_DIALOG
    /\ job = <<>>

\* ------------------------------------------------------------------- C14
\* C14: when the startup probe throws, is absent or answers false, checkApiKey
\* sets the gate inactive and leaves the error, the image, the prompt, the
\* video reference and the jobs as they are.
C14_ProbeFailure ==
    [][\A o \in ProbeOutcomes \ {"true"} :
          CheckApiKeyDone(o) =>
             /\ ~apiKeySelected'
             /\ UNCHANGED <<error, imageFile, previewUrl, prompt, generatedVideoUrl,
                            isLoading, job>>]_vars

\* The probe has answered and the gate is inactive though no job ever ran (so
\* the probe did not answer true), with an image and a prompt kept and no error.
C14_Witness ==
    /\ probe = "done"
    /\ ~apiKeySelected
    /\ selectPending = 0
    /\ error = Null
    /\ imageFile # Null
    /\ prompt # Str(<<>>)
    /\ job = <<>>

\* ------------------------------------------------------------------- C15
\* C15 as claimed: every reset starts the probe again.
C15_Original == [][ClickCreateAnother => probe' = "pending"]_vars

\* C15 (amended): the probe is consulted once, on startup; once it has
\* answered it is never started again, and a reset leaves both the probe and
\* the gate as they are.
C15_ProbeOnce ==
    /\ probe = "pending"
    /\ [][/\ probe = "done" => probe' = "done"
          /\ ClickCreateAnother =>
                probe' = probe /\ apiKeySelected' = apiKeySelected]_vars

\* Back in Idle by a reset after a finished job: the probe answered long ago
\* and is not pending again.
C15_Witness ==
    /\ Cleared
    /\ ~isLoading
    /\ apiKeySelected
    /\ probe = "done"
    /\ \E j \in Jobs : job[j].result = "resolved"

\* ------------------------------------------------------------------- C16
\* A step in which job j emits a progress message.
Emits(j) == Len(job'[j].progress) > Len(JobBefore(j).progress)

\* C16: the download is requested only by a job that has received an operation
\* with done = true, in the step that receives it, and it is the job's last
\* call. A job starts with no message emitted and no call made. Within a job the poll count never goes down and messages are only
\* appended, one at a time, so they appear in the order of the poll counts
\* they were emitted at; the download message comes with the download request
\* and nothing is emitted after it.
C16_Order ==
    /\ [](\A j \in Jobs :
             LET p == job[j].progress
                 c == job[j].calls IN
             /\ Fetches(c) # {} =>
                    /\ job[j].operation.done
                    /\ Fetches(c) = {Len(c)}
                    /\ p[Len(p)] = DOWNLOADING_MESSAGE
             /\ \A k \in 1..Len(p) :
                    p[k] = DOWNLOADING_MESSAGE => k = Len(p) /\ Fetches(c) # {})
    /\ [][\A j \in JobsAfter :
             /\ Started(j) =>
                   /\ job'[j].progress = <<>>
                   /\ job'[j].calls = <<>>
             /\ ~Started(j) =>
                   /\ job'[j].pollCount >= job[j].pollCount
                   /\ Len(job'[j].progress) \in {Len(job[j].progress), Len(job[j].progress) + 1}
                   /\ SubSeq(job'[j].progress, 1, Len(job[j].progress)) = job[j].progress
                   /\ Fetches(job'[j].calls) # Fetches(job[j].calls) =>
                         /\ Emits(j)
                         /\ \E o \in OperationOutcomes :
                               o.done /\ (SubmitDone(j, o) \/ PollDone(j, o))
                   /\ Fetches(job[j].calls) # {} => ~Emits(j) /\ ~RemoteCall(j)]_vars

\* A job whose third poll found the operation done and which is now
\* downloading: four loading messages, then the download message.
C16_Witness ==
    \E j \in Jobs :
       /\ job[j].pc = "fetch"
       /\ Cardinality(Polls(job[j].calls)) = 3
       /\ Len(job[j].progress) = 5
       /\ job[j].pollCount = 4

\* ------------------------------------------------------------------- C17
\* C17: when the file read fails (the reader reports an error or gives no
\* string), the job ends in that step, rejected, having emitted no progress
\* message and made no submit, poll or download call, and the application is
\* in Failed with nothing loading.
C17_EncodeFailure ==
    [][\A j \in Jobs : \A o \in EncodeOutcomes \ {"dataurl"} :
          EncodeDone(j, o) =>
             /\ job'[j].pc = "done"
             /\ job'[j].result = "rejected"
             /\ job'[j].progress = <<>>
             /\ job'[j].calls = <<>>
             /\ job'[j].keys = {}
             /\ Failed'
             /\ error' = (IF o = "nonstring" THEN MSG_NOT_BASE64 ELSE MSG_UNKNOWN)
             /\ loadingMessage' = ""]_vars

\* A job that ended on the reader's error event: Failed, with the fallback
\* message, no progress and no call.
C17_Witness ==
    /\ Failed
    /\ error = MSG_UNKNOWN
    /\ \E j \in Jobs :
          /\ job[j].result = "rejected"
          /\ job[j].progress = <<>>
          /\ job[j].calls = <<>>

\* ------------------------------------------------------------------- C18
\* C18: a video reference and an error message are never both set, and
\* neither is set while a job is in flight (isLoading).
C18_Exclusive ==
    /\ ~(Truthy(generatedVideoUrl) /\ Truthy(error))
    /\ isLoading => ~Truthy(generatedVideoUrl) /\ ~Truthy(error)

\* ------------------------------------------------------------------- C19
\* C19: the gate, once active, turns inactive only in the step in which a job
\* fails with the invalid-credential error; so neither the startup probe
\* answering after a key selection nor anything happening while a job stays
\* in flight turns it inactive.
C19_GateKept ==
    [][apiKeySelected /\ ~apiKeySelected' =>
          /\ error' = MSG_INVALID_KEY
          /\ \E j \in Jobs : InFlight(j) /\ job'[j].result = "rejected"]_vars
====
